---- MODULE Spec2Model ----
(***************************************************************************)
(* Model of wandb/data_types/_media.py: the Media value, its staging       *)
(* (_set_file), its binding to a run (bind_to_run), its serialisation      *)
(* for a run or an artifact (to_json) and its equality (__eq__).           *)
(*                                                                         *)
(* Python strings are sequences of symbols.  A symbol is one character, or *)
(* a run of letters that no operation of the program splits ("media",      *)
(* "png"); the separator "/", the dot ".", the underscore "_" and the hex  *)
(* digits of a digest are always symbols of their own.                     *)
(***************************************************************************)
EXTENDS Integers, Sequences, FiniteSets, TLC

VARIABLES media, fs, arts, last, everSet, ncalls

vars == <<media, fs, arts, last, everSet, ncalls>>

-----------------------------------------------------------------------------
(* Bounds of the model.                                                    *)

\* Number of calls made on the instances in one behaviour.
MaxCalls == 3

-----------------------------------------------------------------------------
(* Python values.                                                          *)

\* None where a string is expected (Optional[str]); no string holds this symbol.
None == <<"None">>

\* None where a run, an artifact or an artifact source is expected.
NoObj == "None"

\* Union[int, str] and Optional[Union[int, str]] arguments, tagged by type.
PyInt(n) == [t |-> "int", v |-> <<>>, n |-> n]
PyStr(s) == [t |-> "str", v |-> s, n |-> 0]
PyNone == [t |-> "none", v |-> <<>>, n |-> 0]

Digit(d) == <<"0", "1", "2", "3", "4", "5", "6", "7", "8", "9">>[d + 1]

RECURSIVE NatToStr(_)
NatToStr(n) == IF n < 10 THEN <<Digit(n)>> ELSE NatToStr(n \div 10) \o <<Digit(n % 10)>>

\* str(x) of Python for an int, a str or None.
str(x) ==
    CASE x.t = "int" -> IF x.n < 0 THEN <<"-">> \o NatToStr(0 - x.n) ELSE NatToStr(x.n)
      [] x.t = "str" -> x.v
      [] OTHER -> None

-----------------------------------------------------------------------------
(* str methods and the os.path functions of posixpath.                     *)

sep == "/"

startswith(s, p) == Len(p) <= Len(s) /\ SubSeq(s, 1, Len(p)) = p

endswith(s, p) == Len(p) <= Len(s) /\ SubSeq(s, Len(s) - Len(p) + 1, Len(s)) = p

\* s.rfind(c) + 1: the position of the last c in s, 0 when there is none.
rfind(s, c) ==
    LET I == {i \in 1..Len(s) : s[i] = c}
    IN  IF I = {} THEN 0 ELSE CHOOSE i \in I : \A j \in I : j <= i

\* s.lstrip(c)
RECURSIVE lstrip(_, _)
lstrip(s, c) == IF s # <<>> /\ Head(s) = c THEN lstrip(Tail(s), c) ELSE s

\* s[:n]
prefix(s, n) == SubSeq(s, 1, IF n < Len(s) THEN n ELSE Len(s))

\* s[n:]
suffix(s, n) == SubSeq(s, n + 1, Len(s))

basename(p) == suffix(p, rfind(p, sep))

\* posixpath.dirname: the head up to the last separator, its trailing
\* separators stripped unless it consists of separators only.
RECURSIVE rstrip(_, _)
rstrip(s, c) == IF s # <<>> /\ s[Len(s)] = c THEN rstrip(SubSeq(s, 1, Len(s) - 1), c) ELSE s

dirname(p) ==
    LET head == prefix(p, rfind(p, sep))
    IN  IF head # <<>> /\ rstrip(head, sep) # <<>> THEN rstrip(head, sep) ELSE head

\* posixpath.splitext: <<root, ext>>; the extension starts at the last dot of
\* the last component, unless only dots precede it in that component.
splitext(p) ==
    LET sepIndex == rfind(p, sep)
        dotIndex == rfind(p, ".")
    IN  IF dotIndex > sepIndex
           /\ \E i \in (sepIndex + 1)..(dotIndex - 1) : p[i] # "."
        THEN <<prefix(p, dotIndex - 1), suffix(p, dotIndex - 1)>>
        ELSE <<p, <<>>>>

\* posixpath.join(a, b)
join(a, b) ==
    IF startswith(b, <<sep>>) THEN b
    ELSE IF a = <<>> \/ endswith(a, <<sep>>) THEN a \o b
    ELSE a \o <<sep>> \o b

\* p.split(sep), as a sequence of components.
RECURSIVE split(_)
split(p) ==
    LET I == {i \in 1..Len(p) : p[i] = sep}
    IN  IF I = {} THEN <<p>>
        ELSE LET i == CHOOSE k \in I : \A j \in I : k <= j
             IN  <<prefix(p, i - 1)>> \o split(suffix(p, i))

\* The components of posixpath.normpath(p) for an absolute p: empty and "."
\* components are dropped, ".." removes the component before it.
RECURSIVE normcomps(_, _)
normcomps(comps, acc) ==
    IF comps = <<>> THEN acc
    ELSE LET c == Head(comps)
         IN  IF c = <<>> \/ c = <<".">> THEN normcomps(Tail(comps), acc)
             ELSE IF c = <<".", ".">>
                  THEN normcomps(Tail(comps),
                                 IF acc = <<>> THEN acc ELSE SubSeq(acc, 1, Len(acc) - 1))
                  ELSE normcomps(Tail(comps), Append(acc, c))

RECURSIVE joinall(_)
joinall(comps) ==
    IF Len(comps) = 1 THEN comps[1] ELSE comps[1] \o <<sep>> \o joinall(Tail(comps))

\* A relpath that returns the path as it is.
relpath_absolute(path, start) == path

\* posixpath.relpath(path, start) for absolute path and start.
relpath(path, start) ==
    LET start_list == normcomps(split(start), <<>>)
        path_list == normcomps(split(path), <<>>)
        C == {k \in 0..Len(start_list) :
                 k <= Len(path_list) /\ \A j \in 1..k : start_list[j] = path_list[j]}
        i == CHOOSE k \in C : \A j \in C : j <= k
        rel_list == [j \in 1..(Len(start_list) - i) |-> <<".", ".">>]
                    \o SubSeq(path_list, i + 1, Len(path_list))
    IN  IF rel_list = <<>> THEN <<".">> ELSE joinall(rel_list)

\* platform.system() of the interpreter the model describes.
SYS_PLATFORM == "Linux"

\* wandb.util.to_forward_slash_path: backslashes become slashes on Windows only.
to_forward_slash_path(p) ==
    IF SYS_PLATFORM = "Windows"
    THEN [i \in 1..Len(p) |-> IF p[i] = "\\" THEN "/" ELSE p[i]]
    ELSE p

\* wandb.util.check_windows_valid_filename: none of the characters that
\* Windows forbids in a file name occurs in str(key).
check_windows_valid_filename(key) ==
    \A i \in 1..Len(str(key)) : str(key)[i] \notin {"<", ">", ":", "\"", "\\", "?", "*"}

-----------------------------------------------------------------------------
(* Files and digests.                                                      *)

\* File contents: sequences of bytes.
ContentA == <<97>>
ContentB == <<98, 99>>
Contents == {ContentA, ContentB}

\* hashlib.sha256(bytes).hexdigest(): the 64 hex digits of the digest.
sha256hex(bytes) ==
    CASE bytes = ContentA ->
           <<"c", "a", "9", "7", "8", "1", "1", "2", "c", "a", "1", "b", "b", "d", "c", "a", "f", "a", "c", "2", "3", "1", "b", "3", "9", "a", "2", "3", "d", "c", "4", "d", "a", "7", "8", "6", "e", "f", "f", "8", "1", "4", "7", "c", "4", "e", "7", "2", "b", "9", "8", "0", "7", "7", "8", "5", "a", "f", "e", "e", "4", "8", "b", "b">>
      [] bytes = ContentB ->
           <<"1", "e", "0", "b", "b", "d", "6", "c", "6", "8", "6", "b", "a", "0", "5", "0", "b", "8", "e", "b", "0", "3", "f", "f", "e", "e", "d", "c", "6", "4", "f", "d", "c", "9", "d", "8", "0", "9", "4", "7", "f", "c", "e", "8", "2", "1", "a", "b", "b", "e", "5", "d", "6", "d", "c", "8", "d", "2", "5", "2", "c", "5", "a", "c">>
      [] OTHER ->
           <<"c", "e", "a", "5", "9", "0", "2", "7", "f", "1", "8", "e", "b", "a", "d", "6", "4", "3", "8", "2", "5", "f", "c", "d", "6", "f", "e", "9", "4", "a", "4", "2", "3", "b", "e", "5", "c", "9", "3", "f", "1", "2", "4", "9", "3", "4", "9", "3", "f", "e", "1", "5", "3", "f", "c", "9", "e", "7", "1", "6", "b", "1", "e", "b">>

\* os.path.exists(p) and the bytes of the file at p.
exists(files, p) == p \in DOMAIN files

\* shutil.move(src, dst) for an existing src: os.rename, so src is gone
\* unless it is dst itself.
shutil_move(files, src, dst) ==
    [p \in (DOMAIN files \ {src}) \cup {dst} |-> IF p = dst THEN files[src] ELSE files[p]]

\* A copy that does not leave its source behind.
shutil_copy_moving(files, src, dst) ==
    [p \in (DOMAIN files \ {src}) \cup {dst} |-> IF p = dst THEN files[src] ELSE files[p]]

\* shutil.copy(src, dst) for an existing src other than dst.
shutil_copy(files, src, dst) ==
    [p \in DOMAIN files \cup {dst} |-> IF p = dst THEN files[src] ELSE files[p]]

-----------------------------------------------------------------------------
(* The objects of the model.                                               *)

MediaIds == {"m1", "m2"}
Runs == {"r1", "r2"}
Artifacts == {"a1", "a2"}

\* Run.dir
RunDir(run) == <<sep, run>>

\* The concrete kinds of Media: Image and Audio derive from Media, and
\* ImageMask stands for a class that derives from Image.
Kinds == {"Image", "Audio", "ImageMask"}

\* The classes a kind derives from, itself included (its __mro__ up to Media).
Bases(kind) == IF kind = "ImageMask" THEN {"ImageMask", "Image"} ELSE {kind}

\* isinstance(x, cls) for x of kind kind.
isinstance(kind, cls) == cls \in Bases(kind)

\* cls.get_media_subdir()
get_media_subdir(kind) ==
    IF isinstance(kind, "Audio") THEN <<"media", sep, "audio">>
    ELSE <<"media", sep, "images">>

\* cls._log_type
log_type(kind) == IF isinstance(kind, "Audio") THEN "audio-file" ELSE "image-file"

\* Audio.path_is_reference(path): the path starts with a storage scheme.
path_is_reference(path) == startswith(path, <<"s3", ":", sep, sep>>)

\* The files on disk when the program starts: a file of the staging directory
\* and two files of the caller, which share a base name.
StagedFile == <<sep, "tmp", sep, "s", ".", "tar", ".", "gz">>
CallerFile1 == <<sep, "d1", sep, "a", ".", "png">>
CallerFile2 == <<sep, "d2", sep, "a", ".", "png">>

InitialFiles ==
    [p \in {StagedFile, CallerFile1, CallerFile2} |->
        IF p = CallerFile2 THEN ContentB ELSE ContentA]

\* A remote object that an Audio may refer to instead of a file.
RemoteUri == <<"s3", ":", sep, sep, "b">>

\* The arguments the callers pass.
SetFilePaths == DOMAIN InitialFiles
SetFileExtensions == {None, <<".", "tar", ".", "gz">>, <<".", "png">>}
Keys == {PyStr(<<"img">>)}
Steps == {PyInt(0)}
Ids == {PyNone, PyStr(<<"x">>)}

\* The artifacts that content may originate from, and their _default_root().
SourceArtifacts == {"src"}
default_root(sa) == <<sep, "d1">>

\* The attributes that _set_file creates; __init__ does not create them.
SetFileAttrs == {"_is_tmp", "_extension", "_sha256", "_size"}

hasattr(self, a) == a \in self.attrs

\* Media.__init__(caption), with the fields of WBValue.__init__.
NewMedia(kind, caption) ==
    [kind |-> kind, path |-> None, run |-> NoObj, caption |-> caption,
     attrs |-> {}, is_tmp |-> FALSE, extension |-> None, sha256 |-> None,
     size |-> 0, artifact_source |-> NoObj]

\* An artifact under construction: the local paths added so far with the
\* names they were given, and its entries.
NewArtifact == [added |-> <<>>, entries |-> {}]

\* A descriptor (the dict to_json returns): keys are the keys present.
NoJson == [keys |-> {}, type |-> "", path |-> None, sha256 |-> None, size |-> 0]

\* The record of the last call: its arguments, how it ended (err is "ok" or
\* the exception raised), what it returned, the calls it made to
\* _datatypes_callback with what each found, and the call to the artifact.
NoCall ==
    [op |-> "none", m |-> "", err |-> "ok", run |-> NoObj, art |-> NoObj, other |-> "",
     key |-> PyNone, step |-> PyNone, id |-> PyNone,
     path |-> None, is_tmp |-> FALSE, extension |-> None,
     ret |-> NoJson, eq |-> FALSE, cb |-> <<>>, seen |-> <<>>,
     mut |-> "none", dedup |-> FALSE, derived |-> None]

Init ==
    /\ \E k \in Kinds :
          media = [m \in MediaIds |->
                      IF m = "m1" THEN NewMedia("Image", None) ELSE NewMedia(k, <<"cap">>)]
    /\ fs = InitialFiles
    /\ arts = [a \in Artifacts |-> NewArtifact]
    /\ last = NoCall
    /\ everSet = {}
    /\ ncalls = 0

-----------------------------------------------------------------------------
(* Media._set_file                                                         *)

\* A _set_file that records the digest and not the size.
_set_file_hash_only(self, files, path, is_tmp, extension) ==
    LET s1 == [self EXCEPT !.path = path, !.is_tmp = is_tmp, !.extension = extension,
                           !.attrs = @ \cup {"_is_tmp", "_extension"}]
    IN  IF extension # None /\ ~endswith(path, extension)
        THEN [err |-> "ValueError", self |-> s1]
        ELSE IF ~exists(files, path)
        THEN [err |-> "FileNotFoundError", self |-> s1]
        ELSE [err |-> "ok",
              self |-> [s1 EXCEPT !.sha256 = sha256hex(files[path]),
                                  !.attrs = @ \cup {"_sha256"}]]

\* A _set_file that keeps the digest and the size it already has.
_set_file_keep(self, files, path, is_tmp, extension) ==
    LET s1 == [self EXCEPT !.path = path, !.is_tmp = is_tmp, !.extension = extension,
                           !.attrs = @ \cup {"_is_tmp", "_extension"}]
    IN  IF extension # None /\ ~endswith(path, extension)
        THEN [err |-> "ValueError", self |-> s1]
        ELSE IF ~exists(files, path)
        THEN [err |-> "FileNotFoundError", self |-> s1]
        ELSE IF hasattr(self, "_sha256")
        THEN [err |-> "ok", self |-> s1]
        ELSE [err |-> "ok",
              self |-> [s1 EXCEPT !.sha256 = sha256hex(files[path]),
                                  !.size = Len(files[path]),
                                  !.attrs = @ \cup {"_sha256", "_size"}]]

\* The outcome of _set_file(path, is_tmp, extension) on self: the exception
\* raised ("ok" for none) and self afterwards.
_set_file(self, files, path, is_tmp, extension) ==
    LET s1 == [self EXCEPT !.path = path, !.is_tmp = is_tmp, !.extension = extension,
                           !.attrs = @ \cup {"_is_tmp", "_extension"}]
    IN  IF extension # None /\ ~endswith(path, extension)
        THEN [err |-> "ValueError", self |-> s1]
        ELSE IF ~exists(files, path)
        THEN [err |-> "FileNotFoundError", self |-> s1]
        ELSE [err |-> "ok",
              self |-> [s1 EXCEPT !.sha256 = sha256hex(files[path]),
                                  !.size = Len(files[path]),
                                  !.attrs = @ \cup {"_sha256", "_size"}]]

SetFile(m, path, is_tmp, extension) ==
    /\ ncalls < MaxCalls
    /\ LET r == _set_file(media[m], fs, path, is_tmp, extension)
       IN  /\ media' = [media EXCEPT ![m] = r.self]
           /\ everSet' = IF r.err = "ok" THEN everSet \cup {m} ELSE everSet
           /\ last' = [NoCall EXCEPT !.op = "_set_file", !.m = m, !.err = r.err,
                                     !.path = path, !.is_tmp = is_tmp,
                                     !.extension = extension]
           /\ UNCHANGED <<fs, arts>>
           /\ ncalls' = ncalls + 1

\* The content of an instance comes from another artifact
\* (WBValue._set_artifact_source).
SetArtifactSource(m, sa) ==
    /\ ncalls < MaxCalls
    /\ media[m].artifact_source = NoObj
    /\ media' = [media EXCEPT ![m].artifact_source = sa]
    /\ last' = [NoCall EXCEPT !.op = "_set_artifact_source", !.m = m]
    /\ UNCHANGED <<fs, arts, everSet>>
    /\ ncalls' = ncalls + 1

\* An Audio is created from a reference to remote storage: the path is the
\* URI, the digest is taken of the URI, and no file is read.
SetReference(m, uri) ==
    /\ ncalls < MaxCalls
    /\ isinstance(media[m].kind, "Audio")
    /\ media[m].path = None
    /\ media' = [media EXCEPT ![m] =
                    [@ EXCEPT !.path = uri, !.is_tmp = FALSE, !.extension = None,
                              !.sha256 = sha256hex(uri), !.size = Len(uri),
                              !.attrs = SetFileAttrs]]
    /\ everSet' = everSet \cup {m}
    /\ last' = [NoCall EXCEPT !.op = "set_reference", !.m = m, !.path = uri]
    /\ UNCHANGED <<fs, arts>>
    /\ ncalls' = ncalls + 1

-----------------------------------------------------------------------------
(* Media.is_bound, Media.file_is_set, _wb_filename                         *)

\* An is_bound that takes every instance for bound.
is_bound_always(self) == TRUE

is_bound(self) == self.run # NoObj

\* "True", "False", or "AttributeError" when _path is set and the attribute
\* _sha256 does not exist (the and of Python evaluates _path first).
file_is_set(self) ==
    IF self.path = None THEN "False"
    ELSE IF ~hasattr(self, "_sha256") THEN "AttributeError"
    ELSE IF self.sha256 # None THEN "True" ELSE "False"

\* A _wb_filename that puts the step before the key.
_wb_filename_swapped(key, step, id, extension) ==
    str(step) \o <<"_">> \o str(key) \o <<"_">> \o str(id) \o extension

_wb_filename(key, step, id, extension) ==
    str(key) \o <<"_">> \o str(step) \o <<"_">> \o str(id) \o extension

-----------------------------------------------------------------------------
(* Media.bind_to_run                                                       *)

\* The extension bind_to_run gives the file name.
bind_extension(self) ==
    IF self.extension = None THEN splitext(basename(self.path))[2] ELSE self.extension

\* The id bind_to_run gives the file name.
bind_id(self, id_) == IF id_ = PyNone THEN PyStr(prefix(self.sha256, 20)) ELSE id_

\* os.path.join(self.get_media_subdir(), file_path)
bind_media_path(self, key, step, id_) ==
    join(get_media_subdir(self.kind),
         _wb_filename(key, step, bind_id(self, id_), bind_extension(self)))

\* os.path.join(self._run.dir, media_path)
bind_new_path(self, run, key, step, id_) ==
    join(RunDir(run), bind_media_path(self, key, step, id_))

\* A bind_to_run that notifies the run as soon as the media path is known,
\* before the directories are made and the file is moved or copied.
bind_to_run_early_callback(self, files, run, key, step, id_, mkdir_ok) ==
    LET bound == [self EXCEPT !.run = run]
        media_path == bind_media_path(self, key, step, id_)
        new_path == bind_new_path(self, run, key, step, id_)
        called == <<media_path>>
        found == <<[file |-> exists(files, new_path), path |-> self.path]>>
        fail(e, s, c, f) == [err |-> e, self |-> s, files |-> files, cb |-> c, seen |-> f]
    IN  IF file_is_set(self) = "AttributeError" THEN fail("AttributeError", self, <<>>, <<>>)
        ELSE IF file_is_set(self) = "False" THEN fail("AssertionError", self, <<>>, <<>>)
        ELSE IF SYS_PLATFORM = "Windows" /\ ~check_windows_valid_filename(key)
        THEN fail("ValueError", self, <<>>, <<>>)
        ELSE IF run = NoObj THEN fail("TypeError", self, <<>>, <<>>)
        ELSE IF ~hasattr(self, "_extension") THEN fail("AttributeError", bound, <<>>, <<>>)
        ELSE IF ~mkdir_ok THEN fail("OSError", bound, called, found)
        ELSE IF ~hasattr(self, "_is_tmp") THEN fail("AttributeError", bound, called, found)
        ELSE IF ~exists(files, self.path) THEN fail("FileNotFoundError", bound, called, found)
        ELSE IF self.is_tmp
        THEN [err |-> "ok", self |-> [bound EXCEPT !.path = new_path, !.is_tmp = FALSE],
              files |-> shutil_move(files, self.path, new_path),
              cb |-> called, seen |-> found]
        ELSE IF self.path = new_path THEN fail("SameFileError", bound, called, found)
        ELSE [err |-> "ok", self |-> [bound EXCEPT !.path = new_path],
              files |-> shutil_copy(files, self.path, new_path),
              cb |-> called, seen |-> found]

\* The outcome of bind_to_run(run, key, step, id_) on self: the exception
\* raised ("ok" for none), self and the files afterwards, the calls made to
\* _datatypes_callback, and what each of them finds when it is made: whether
\* the file is at its new path, and the _path of self.  mkdir_ok tells
\* whether mkdir_exists_ok succeeds.
bind_to_run(self, files, run, key, step, id_, mkdir_ok) ==
    LET bound == [self EXCEPT !.run = run]
        media_path == bind_media_path(self, key, step, id_)
        new_path == bind_new_path(self, run, key, step, id_)
        moved == shutil_move(files, self.path, new_path)
        copied == shutil_copy(files, self.path, new_path)
        fail(e, s) == [err |-> e, self |-> s, files |-> files, cb |-> <<>>, seen |-> <<>>]
        done(s, fl) == [err |-> "ok", self |-> s, files |-> fl, cb |-> <<media_path>>,
                        seen |-> <<[file |-> exists(fl, join(RunDir(run), media_path)),
                                    path |-> s.path]>>]
    IN  IF file_is_set(self) = "AttributeError" THEN fail("AttributeError", self)
        ELSE IF file_is_set(self) = "False" THEN fail("AssertionError", self)
        ELSE IF SYS_PLATFORM = "Windows" /\ ~check_windows_valid_filename(key)
        THEN fail("ValueError", self)
        ELSE IF run = NoObj THEN fail("TypeError", self)
        ELSE IF ~hasattr(self, "_extension") THEN fail("AttributeError", bound)
        ELSE IF ~mkdir_ok THEN fail("OSError", bound)
        ELSE IF ~hasattr(self, "_is_tmp") THEN fail("AttributeError", bound)
        ELSE IF ~exists(files, self.path) THEN fail("FileNotFoundError", bound)
        ELSE IF self.is_tmp
        THEN done([bound EXCEPT !.path = new_path, !.is_tmp = FALSE], moved)
        ELSE IF self.path = new_path THEN fail("SameFileError", bound)
        ELSE done([bound EXCEPT !.path = new_path], copied)

BindToRun(m, run, key, step, id_, mkdir_ok) ==
    /\ ncalls < MaxCalls
    /\ LET r == bind_to_run(media[m], fs, run, key, step, id_, mkdir_ok)
       IN  /\ media' = [media EXCEPT ![m] = r.self]
           /\ fs' = r.files
           /\ last' = [NoCall EXCEPT !.op = "bind_to_run", !.m = m, !.err = r.err,
                                     !.run = run, !.key = key, !.step = step, !.id = id_,
                                     !.cb = r.cb, !.seen = r.seen]
           /\ UNCHANGED <<arts, everSet>>
           /\ ncalls' = ncalls + 1

-----------------------------------------------------------------------------
(* Media.to_json                                                           *)

\* to_json(run) for a Run: the exception raised ("ok" for none) and the dict.
to_json_run(self, run) ==
    IF ~is_bound(self) THEN [err |-> "RuntimeError", ret |-> NoJson]
    ELSE IF self.run # run THEN [err |-> "AssertionError", ret |-> NoJson]
    ELSE IF ~hasattr(self, "_sha256") \/ ~hasattr(self, "_size")
    THEN [err |-> "AttributeError", ret |-> NoJson]
    ELSE [err |-> "ok",
          ret |-> [keys |-> {"_type", "path", "sha256", "size"},
                   type |-> "file",
                   path |-> to_forward_slash_path(relpath(self.path, RunDir(self.run))),
                   sha256 |-> self.sha256,
                   size |-> self.size]]

ToJsonRun(m, run) ==
    /\ ncalls < MaxCalls
    /\ LET r == to_json_run(media[m], run)
       IN  /\ last' = [NoCall EXCEPT !.op = "to_json_run", !.m = m, !.err = r.err,
                                     !.run = run, !.ret = r.ret]
           /\ UNCHANGED <<media, fs, arts, everSet>>
           /\ ncalls' = ncalls + 1

-----------------------------------------------------------------------------
(* The Artifact that to_json adds to.                                      *)

\* Artifact.get_added_local_path_name(path): the name a local path was added
\* under, None when it was not added.
get_added_local_path_name(art, path) ==
    IF path \in DOMAIN art.added THEN art.added[path] ELSE None

\* The names Artifact.add_file may give the entry: the name asked for, or,
\* for a temporary file, that name with the start of the file name replaced
\* by a digest of the content.
add_file_names(files, path, name, is_tmp) ==
    LET file_name == basename(name)
        dots == {i \in 1..Len(file_name) : file_name[i] = "."}
        first_dot == IF dots = {} THEN Len(file_name) + 1
                     ELSE CHOOSE i \in dots : \A j \in dots : i <= j
    IN  IF is_tmp /\ exists(files, path)
        THEN {name, join(dirname(name),
                         prefix(sha256hex(files[path]), 20)
                         \o suffix(file_name, first_dot - 1))}
        ELSE {name}

\* Artifact.add_file(path, name, is_tmp), the entry named final.
add_file(art, path, final) ==
    [added |-> (path :> final) @@ art.added,
     entries |-> art.entries \cup {[name |-> final, kind |-> "file", ref |-> path]}]

\* Artifact.add_reference(uri, name)
add_reference(art, uri, name) ==
    [art EXCEPT !.entries = @ \cup {[name |-> name, kind |-> "reference", ref |-> uri]}]

\* artifact.get_path(name).ref_url() of a source artifact.
ref_url(sa, name) == <<"wandb-artifact", ":", sep, sep, sa, sep>> \o name

\* A derived name without the hash segment, whatever _is_tmp is.
derived_name_nohash(self) == join(get_media_subdir(self.kind), basename(self.path))

\* The name to_json derives for a path that was not added to the artifact.
derived_name(self) ==
    IF self.is_tmp
    THEN join(get_media_subdir(self.kind), basename(self.path))
    ELSE join(join(get_media_subdir(self.kind), prefix(self.sha256, 20)),
              basename(self.path))

\* A source name that is never taken relative to the root of the source.
source_name_derived(self) == derived_name(self)

\* The name to_json uses when the content comes from a source artifact.
source_name(self) ==
    IF startswith(self.path, default_root(self.artifact_source))
    THEN lstrip(suffix(self.path, Len(default_root(self.artifact_source))), sep)
    ELSE derived_name(self)

\* The lookup left out: every path is taken for new.
added_name_nolookup(self, art) == None

\* The name the artifact already has for the file of self, None when it has
\* none: artifact.get_added_local_path_name(self._path).
added_name(self, art) == get_added_local_path_name(art, self.path)

\* to_json(artifact) for an Artifact: the exception raised ("ok" for none),
\* the dict, the artifact afterwards, whether the lookup by path found a
\* name, the name handed to the artifact and the call made to it.  final is
\* the name add_file gives the entry.
to_json_artifact(self, art, files, final) ==
    LET name == added_name(self, art)
        json(n) == [keys |-> {"_type", "path", "sha256"}, type |-> log_type(self.kind),
                    path |-> n, sha256 |-> self.sha256, size |-> 0]
        res(e, j, a, d, n, c) ==
            [err |-> e, ret |-> j, art |-> a, dedup |-> d, derived |-> n, mut |-> c]
    IN  IF file_is_set(self) = "AttributeError"
        THEN res("AttributeError", NoJson, art, FALSE, None, "none")
        ELSE IF file_is_set(self) = "False"
        THEN res("ok", [NoJson EXCEPT !.keys = {"_type"}, !.type = log_type(self.kind)],
                 art, FALSE, None, "none")
        ELSE IF name # None
        THEN res("ok", json(name), art, TRUE, None, "none")
        ELSE IF ~hasattr(self, "_is_tmp")
        THEN res("AttributeError", NoJson, art, FALSE, None, "none")
        ELSE IF self.artifact_source # NoObj
        THEN res("ok", json(source_name(self)),
                 add_reference(art, ref_url(self.artifact_source, source_name(self)),
                               source_name(self)),
                 FALSE, source_name(self), "add_reference")
        ELSE IF isinstance(self.kind, "Audio") /\ path_is_reference(self.path)
        THEN res("ok", json(derived_name(self)),
                 add_reference(art, self.path, derived_name(self)),
                 FALSE, derived_name(self), "add_reference")
        ELSE IF ~exists(files, self.path)
        THEN res("ValueError", NoJson, art, FALSE, derived_name(self), "none")
        ELSE res("ok", json(final), add_file(art, self.path, final),
                 FALSE, derived_name(self), "add_file")

\* A to_json(artifact) that hands a staged file over to the artifact: the
\* instance is no longer temporary afterwards.
ToJsonArtifact_consuming(m, a) ==
    /\ ncalls < MaxCalls
    /\ \E final \in add_file_names(fs, media[m].path, derived_name(media[m]), media[m].is_tmp) :
           LET r == to_json_artifact(media[m], arts[a], fs, final)
           IN  /\ arts' = [arts EXCEPT ![a] = r.art]
               /\ media' = [media EXCEPT ![m] =
                               IF r.mut = "add_file" THEN [@ EXCEPT !.is_tmp = FALSE] ELSE @]
               /\ last' = [NoCall EXCEPT !.op = "to_json_artifact", !.m = m, !.err = r.err,
                                         !.art = a, !.ret = r.ret, !.dedup = r.dedup,
                                         !.derived = r.derived, !.mut = r.mut]
               /\ UNCHANGED <<fs, everSet>>
               /\ ncalls' = ncalls + 1

ToJsonArtifact(m, a) ==
    /\ ncalls < MaxCalls
    /\ \E final \in add_file_names(fs, media[m].path, derived_name(media[m]), media[m].is_tmp) :
           LET r == to_json_artifact(media[m], arts[a], fs, final)
           IN  /\ arts' = [arts EXCEPT ![a] = r.art]
               /\ last' = [NoCall EXCEPT !.op = "to_json_artifact", !.m = m, !.err = r.err,
                                         !.art = a, !.ret = r.ret, !.dedup = r.dedup,
                                         !.derived = r.derived, !.mut = r.mut]
               /\ UNCHANGED <<media, fs, everSet>>
               /\ ncalls' = ncalls + 1

-----------------------------------------------------------------------------
(* Media.__eq__ and the == of Python                                       *)

\* An __eq__ without the isinstance test.
__eq___anykind(self, other) ==
    /\ hasattr(self, "_sha256")
    /\ hasattr(other, "_sha256")
    /\ self.sha256 = other.sha256

\* self.__eq__(other)
__eq__(self, other) ==
    /\ isinstance(other.kind, self.kind)
    /\ hasattr(self, "_sha256")
    /\ hasattr(other, "_sha256")
    /\ self.sha256 = other.sha256

\* An == that always asks its left operand.
PyEq_noreflect(a, b) == __eq__(a, b)

\* a == b: when the class of b derives from the class of a and is not that
\* class, Python calls b.__eq__(a) first and takes its answer, as __eq__
\* never returns NotImplemented; otherwise it calls a.__eq__(b).
PyEq(a, b) ==
    IF a.kind # b.kind /\ isinstance(b.kind, a.kind) THEN __eq__(b, a) ELSE __eq__(a, b)

Eq(m, other) ==
    /\ ncalls < MaxCalls
    /\ last' = [NoCall EXCEPT !.op = "__eq__", !.m = m, !.other = other,
                              !.eq = PyEq(media[m], media[other])]
    /\ UNCHANGED <<media, fs, arts, everSet>>
    /\ ncalls' = ncalls + 1

-----------------------------------------------------------------------------
(* The specification.                                                      *)

Next ==
    \/ \E m \in MediaIds, path \in SetFilePaths, is_tmp \in BOOLEAN,
          extension \in SetFileExtensions : SetFile(m, path, is_tmp, extension)
    \/ \E m \in MediaIds, sa \in SourceArtifacts : SetArtifactSource(m, sa)
    \/ \E m \in MediaIds : SetReference(m, RemoteUri)
    \/ \E m \in MediaIds, run \in Runs \cup {NoObj}, key \in Keys, step \in Steps,
          id_ \in Ids, mkdir_ok \in BOOLEAN : BindToRun(m, run, key, step, id_, mkdir_ok)
    \/ \E m \in MediaIds, run \in Runs : ToJsonRun(m, run)
    \/ \E m \in MediaIds, a \in Artifacts : ToJsonArtifact(m, a)
    \/ \E m, other \in MediaIds : Eq(m, other)

Spec == Init /\ [][Next]_vars

-----------------------------------------------------------------------------
(* Properties.  last' tells which call a step is; media, fs and arts are   *)
(* the state before the call and media', fs' and arts' the state after it. *)

\* The relative path "{mediaSubdir}/{key}_{step}_{id}{extension}".
RelPathOf(kind, key, step, id, extension) ==
    get_media_subdir(kind) \o <<sep>> \o str(key) \o <<"_">> \o str(step) \o <<"_">>
        \o id \o extension

\* The suffix of a path: its last component from its last dot on, empty when
\* that component has no dot after its first symbol.
SuffixOf(path) ==
    IF rfind(path, ".") > rfind(path, sep) + 1 THEN suffix(path, rfind(path, ".") - 1)
    ELSE <<>>

ResolvedId(self, id) == IF id = PyNone THEN SubSeq(self.sha256, 1, 20) ELSE str(id)

ResolvedExtension(self) ==
    IF self.extension # None THEN self.extension ELSE SuffixOf(self.path)

\* C1: an instance that a successful bind_to_run has bound to a run (its
\* file is in that run's directory) cannot be bound to another run: a
\* bind_to_run with a different run fails, so that boundRun never changes
\* to a different run.
C1_RebindToOtherRunFails ==
    [][(/\ last'.op = "bind_to_run"
        /\ media[last'.m].run # NoObj
        /\ startswith(media[last'.m].path, RunDir(media[last'.m].run))
        /\ last'.run \notin {NoObj, media[last'.m].run})
        => last'.err # "ok"]_vars

\* C2: bind_to_run on an instance whose file was never set fails with the
\* "not staged" AssertionError, whatever its arguments, and changes nothing:
\* no instance, no file, and no call to the tracking callback.
C2_UnattachedBindIsNotStaged ==
    [][(last'.op = "bind_to_run" /\ last'.m \notin everSet)
        => /\ last'.err = "AssertionError"
           /\ media' = media
           /\ fs' = fs
           /\ last'.cb = <<>>]_vars

\* C3: a successful bind_to_run(run, key, step, id) relocates the file to
\* run.dir/"{mediaSubdir}/{key}_{step}_{resolvedId}{resolvedExtension}": the
\* file is there with its content, it is gone from the original path when
\* the instance was temporary, and it is still at the original path, as it
\* was, when the instance was not temporary.
C3_BindRelocatesToDerivedPath ==
    [][(last'.op = "bind_to_run" /\ last'.err = "ok")
        => LET old == media[last'.m]
               rel == RelPathOf(old.kind, last'.key, last'.step,
                                ResolvedId(old, last'.id), ResolvedExtension(old))
               dest == RunDir(last'.run) \o <<sep>> \o rel
           IN  /\ last'.cb = <<rel>>
               /\ media'[last'.m].path = dest
               /\ dest \in DOMAIN fs'
               /\ fs'[dest] = fs[old.path]
               /\ old.is_tmp => old.path \notin DOMAIN fs'
               /\ ~old.is_tmp => (old.path \in DOMAIN fs' /\ fs'[old.path] = fs[old.path])]_vars

\* A temporary instance was bound with no id: its staged file is gone and
\* the file is in the run's directory.
C3_Witness ==
    /\ last.op = "bind_to_run"
    /\ last.err = "ok"
    /\ last.id = PyNone
    /\ StagedFile \notin DOMAIN fs
    /\ media[last.m].path \in DOMAIN fs
    /\ startswith(media[last.m].path, RunDir(last.run))

\* C4: to_json(run) succeeds only on an instance bound to exactly that run;
\* it fails with RuntimeError (not bound) on an unbound instance and with
\* AssertionError (run mismatch) on an instance bound to another run, and a
\* failing call changes no field of any instance.
C4_SerializeForRunNeedsThatRun ==
    [][last'.op = "to_json_run"
        => LET self == media[last'.m]
           IN  /\ last'.err = "ok" <=> self.run = last'.run
               /\ self.run = NoObj => last'.err = "RuntimeError"
               /\ self.run \notin {NoObj, last'.run} => last'.err = "AssertionError"
               /\ last'.err # "ok" => media' = media]_vars

\* to_json was called with a run other than the one the instance is bound to.
C4_Witness ==
    /\ last.op = "to_json_run"
    /\ last.err = "AssertionError"
    /\ media[last.m].run \in Runs \ {last.run}

\* C5: to_json(run) right after a successful bind_to_run(run, key, step) of
\* the same instance returns {type "file", path, sha256, size} with path the
\* relative path "{mediaSubdir}/{key}_{step}_{H[:20]}{ext}" the file was
\* relocated to (ext the extension field if set, else the suffix of the
\* path), the file being there, and sha256 and size the fields of the
\* instance, which only _set_file writes.
C5_BindThenSerialize ==
    [][(/\ last'.op = "to_json_run"
        /\ last.op = "bind_to_run" /\ last.err = "ok" /\ last.id = PyNone
        /\ last'.m = last.m /\ last'.run = last.run)
        => LET self == media[last'.m]
               rel == get_media_subdir(self.kind) \o <<sep>> \o str(last.key) \o <<"_">>
                        \o str(last.step) \o <<"_">> \o SubSeq(self.sha256, 1, 20)
                        \o ResolvedExtension(self)
           IN  /\ last'.err = "ok"
               /\ last'.ret = [keys |-> {"_type", "path", "sha256", "size"},
                               type |-> "file", path |-> rel,
                               sha256 |-> self.sha256, size |-> self.size]
               /\ last.cb = <<rel>>
               /\ (RunDir(last.run) \o <<sep>> \o rel) \in DOMAIN fs]_vars

\* _set_file, bind_to_run with no id and to_json for the same run, in a row.
C5_Witness ==
    /\ ncalls = 3
    /\ last.op = "to_json_run"
    /\ last.err = "ok"
    /\ last.ret.size = Len(ContentA)
    /\ last.ret.path = get_media_subdir(media[last.m].kind)
                         \o <<sep, "img", "_", "0", "_">>
                         \o SubSeq(sha256hex(ContentA), 1, 20) \o <<".", "png">>

\* C6: a == b holds iff a and b are of the same concrete kind, both have a
\* computed digest, and the digests are equal.
C6_EqualityIsKindAndHash ==
    last.op = "__eq__"
        => LET a == media[last.m]
               b == media[last.other]
           IN  last.eq <=> /\ a.kind = b.kind
                           /\ hasattr(a, "_sha256")
                           /\ hasattr(b, "_sha256")
                           /\ a.sha256 = b.sha256

\* Two instances with the same content, different paths and different
\* captions were compared and are equal.
C6_Witness ==
    /\ last.op = "__eq__"
    /\ last.eq
    /\ last.m # last.other
    /\ media[last.m].path # media[last.other].path
    /\ media[last.m].caption # media[last.other].caption

\* C7: a bind_to_run that fails leaves boundRun, path and isTemporary as
\* they were and does not call the tracking callback.
C7_FailedBindChangesNothing ==
    [][(last'.op = "bind_to_run" /\ last'.err # "ok")
        => /\ media'[last'.m].run = media[last'.m].run
           /\ media'[last'.m].path = media[last'.m].path
           /\ media'[last'.m].is_tmp = media[last'.m].is_tmp
           /\ last'.cb = <<>>]_vars

\* C8: _set_file with an extension that is not a suffix of the path fails
\* with ValueError (invalid extension) and leaves path, isTemporary,
\* extension, contentHash and size as they were.
C8_InvalidExtensionChangesNothing ==
    [][(last'.op = "_set_file" /\ last'.extension # None
                               /\ ~endswith(last'.path, last'.extension))
        => /\ last'.err = "ValueError"
           /\ media' = media]_vars

\* C9: to_json(artifact) for a path the artifact already has reuses the name
\* recorded for it and leaves the artifact as it is; a call that adds the
\* file records the name it returns for the path; and two calls in a row on
\* the same instance and artifact return the same name.
C9_ArtifactDedupByPath ==
    [][(last'.op = "to_json_artifact" /\ last'.err = "ok" /\ "path" \in last'.ret.keys)
        => LET self == media[last'.m]
               art == arts[last'.art]
           IN  /\ self.path \in DOMAIN art.added
                    => /\ last'.ret.path = art.added[self.path]
                       /\ arts' = arts
                       /\ last'.mut = "none"
               /\ last'.mut = "add_file"
                    => /\ self.path \in DOMAIN arts'[last'.art].added
                       /\ arts'[last'.art].added[self.path] = last'.ret.path
               /\ (/\ last.op = "to_json_artifact" /\ last.err = "ok"
                   /\ last.m = last'.m /\ last.art = last'.art)
                    => last'.ret.path = last.ret.path]_vars

\* The second of two calls for one path found the name the first call's
\* add_file had returned, a name other than the one to_json derives.
C9_Witness ==
    /\ last.op = "to_json_artifact"
    /\ last.err = "ok"
    /\ last.dedup
    /\ last.ret.path = arts[last.art].added[media[last.m].path]
    /\ last.ret.path # derived_name(media[last.m])

C11_NoFileCaseIsNoError ==
    [][(last'.op = "to_json_artifact" /\ ~hasattr(media[last'.m], "_sha256"))
        => /\ last'.err = "ok"
           /\ last'.ret.keys = {"_type"}
           /\ last'.mut = "none"
           /\ arts' = arts]_vars

\* C12: a successful _set_file(F) sets contentHash to the SHA-256 digest of
\* the bytes of F (the same digest for the same bytes, whatever the path)
\* and size to their number, and touches no file, no artifact, no run
\* binding and no other instance.
C12_SetFileHashesAndTouchesNothing ==
    [][(last'.op = "_set_file" /\ last'.err = "ok")
        => LET self == media'[last'.m]
           IN  /\ last'.path \in DOMAIN fs
               /\ hasattr(self, "_sha256") /\ hasattr(self, "_size")
               /\ self.sha256 = sha256hex(fs[last'.path])
               /\ self.size = Len(fs[last'.path])
               /\ Len(self.sha256) = 64
               /\ \A p \in DOMAIN fs : fs[p] = fs[last'.path] <=> sha256hex(fs[p]) = self.sha256
               /\ self.path = last'.path
               /\ self.run = media[last'.m].run
               /\ fs' = fs
               /\ arts' = arts
               /\ \A o \in MediaIds \ {last'.m} : media'[o] = media[o]]_vars

\* After an earlier call, an instance was set to the caller's second file:
\* it holds the digest and the size of that content, and the files are as
\* they were at the start.
C12_Witness ==
    /\ last.op = "_set_file"
    /\ last.err = "ok"
    /\ last.path = CallerFile2
    /\ ncalls >= 2
    /\ media[last.m].sha256 = sha256hex(ContentB)
    /\ media[last.m].size = Len(ContentB)
    /\ fs = InitialFiles

\* C13: contentHash and size are set together and once: once an instance
\* has them, no call changes them.
C13_HashAndSizeNeverChange ==
    [][\A m \in MediaIds :
          hasattr(media[m], "_sha256")
            => /\ media'[m].sha256 = media[m].sha256
               /\ media'[m].size = media[m].size]_vars

\* C13 as amended: contentHash and size are set together, so that no state
\* has one without the other, and once set they are changed only by a later
\* successful _set_file of that instance, which sets both from the new
\* file; bind_to_run and to_json never change them.
C13_HashAndSizeChangeOnlyBySetFile ==
    [][\A m \in MediaIds :
          /\ hasattr(media[m], "_sha256") <=> hasattr(media[m], "_size")
          /\ hasattr(media'[m], "_sha256") <=> hasattr(media'[m], "_size")
          /\ hasattr(media[m], "_sha256") => hasattr(media'[m], "_sha256")
          /\ (/\ hasattr(media[m], "_sha256")
              /\ \/ media'[m].sha256 # media[m].sha256
                 \/ media'[m].size # media[m].size)
             => /\ last'.op = "_set_file"
                /\ last'.m = m
                /\ last'.err = "ok"
                /\ media'[m].sha256 = sha256hex(fs[last'.path])
                /\ media'[m].size = Len(fs[last'.path])]_vars

\* An instance was set, bound to a run and serialised for an artifact, and
\* holds the digest and the size of its content.
C13_Witness ==
    /\ ncalls = 3
    /\ last.op = "to_json_artifact"
    /\ last.err = "ok"
    /\ media[last.m].run # NoObj
    /\ startswith(media[last.m].path, RunDir(media[last.m].run))
    /\ \E c \in Contents : /\ media[last.m].sha256 = sha256hex(c)
                            /\ media[last.m].size = Len(c)

\* C14: a successful bind_to_run calls the tracking callback once, with the
\* relative path "{mediaSubdir}/{filename}", when the file is already at
\* run.dir/<that path> and _path already is that path; a bind_to_run that
\* fails does not call it.
C14_CallbackOnceAfterRelocation ==
    [][last'.op = "bind_to_run"
        => LET old == media[last'.m]
               rel == RelPathOf(old.kind, last'.key, last'.step,
                                ResolvedId(old, last'.id), ResolvedExtension(old))
               dest == RunDir(last'.run) \o <<sep>> \o rel
           IN  /\ last'.err = "ok"
                    => /\ last'.cb = <<rel>>
                       /\ last'.seen = <<[file |-> TRUE, path |-> dest]>>
                       /\ dest \in DOMAIN fs'
                       /\ media'[last'.m].path = dest
               /\ last'.err # "ok" => (last'.cb = <<>> /\ last'.seen = <<>>)]_vars

\* A bind_to_run of a non-temporary instance succeeded and called the
\* callback once, the copy being in the run's directory.
C14_Witness ==
    /\ last.op = "bind_to_run"
    /\ last.err = "ok"
    /\ Len(last.cb) = 1
    /\ last.seen = <<[file |-> TRUE, path |-> media[last.m].path]>>
    /\ media[last.m].path = RunDir(last.run) \o <<sep>> \o last.cb[1]
    /\ CallerFile1 \in DOMAIN fs
    /\ fs[media[last.m].path] = fs[CallerFile1]

\* The name "{mediaSubdir}/{basename}" of a temporary instance and
\* "{mediaSubdir}/{contentHash[:20]}/{basename}" of any other.
NameForm(self) ==
    LET base == suffix(self.path, rfind(self.path, sep))
    IN  IF self.is_tmp THEN get_media_subdir(self.kind) \o <<sep>> \o base
        ELSE get_media_subdir(self.kind) \o <<sep>> \o SubSeq(self.sha256, 1, 20)
               \o <<sep>> \o base

\* The part of a path below a root, without leading separators.
Below(path, root) ==
    LET rest == SubSeq(path, Len(root) + 1, Len(path))
        k == CHOOSE n \in 0..Len(rest) :
                /\ \A i \in 1..n : rest[i] = sep
                /\ n < Len(rest) => rest[n + 1] # sep
    IN  SubSeq(rest, k + 1, Len(rest))

\* C15: a to_json(artifact) that succeeds on an instance with a file changes
\* the artifact not at all when the artifact has a name for the path, and
\* otherwise by exactly one call, the first rule that matches: with a
\* source artifact, a reference to the entry of the source (named relative
\* to the source's root when the path lies under it) and no file, also when
\* the path is a reference path; else, for a reference path, a reference to
\* that URI; else the file, under the name the artifact returns, which is
\* the name of the descriptor.  No other artifact changes.
C15_OneArtifactMutationFirstRuleWins ==
    [][(last'.op = "to_json_artifact" /\ last'.err = "ok" /\ "path" \in last'.ret.keys)
        => LET self == media[last'.m]
               art == arts[last'.art]
               art2 == arts'[last'.art]
               name == last'.ret.path
           IN  /\ \A b \in Artifacts \ {last'.art} : arts'[b] = arts[b]
               /\ self.path \in DOMAIN art.added
                    => (last'.mut = "none" /\ art2 = art)
               /\ (self.path \notin DOMAIN art.added /\ self.artifact_source # NoObj)
                    => /\ last'.mut = "add_reference"
                       /\ name = IF SubSeq(self.path, 1, Len(default_root(self.artifact_source)))
                                      = default_root(self.artifact_source)
                                 THEN Below(self.path, default_root(self.artifact_source))
                                 ELSE NameForm(self)
                       /\ art2.added = art.added
                       /\ art2.entries = art.entries \cup
                             {[name |-> name, kind |-> "reference",
                               ref |-> ref_url(self.artifact_source, name)]}
               /\ (/\ self.path \notin DOMAIN art.added
                   /\ self.artifact_source = NoObj
                   /\ self.kind = "Audio" /\ path_is_reference(self.path))
                    => /\ last'.mut = "add_reference"
                       /\ name = NameForm(self)
                       /\ art2.added = art.added
                       /\ art2.entries = art.entries \cup
                             {[name |-> name, kind |-> "reference", ref |-> self.path]}
               /\ (/\ self.path \notin DOMAIN art.added
                   /\ self.artifact_source = NoObj
                   /\ ~(self.kind = "Audio" /\ path_is_reference(self.path)))
                    => /\ last'.mut = "add_file"
                       /\ last'.derived = NameForm(self)
                       /\ DOMAIN art2.added = DOMAIN art.added \cup {self.path}
                       /\ art2.added[self.path] = name
                       /\ \A p \in DOMAIN art.added : art2.added[p] = art.added[p]
                       /\ art2.entries = art.entries \cup
                             {[name |-> name, kind |-> "file", ref |-> self.path]}]_vars

\* An instance with a source artifact whose path is a reference path was
\* serialised: the artifact holds a reference to the source's entry and no
\* file.
C15_Witness ==
    /\ last.op = "to_json_artifact"
    /\ last.err = "ok"
    /\ last.mut = "add_reference"
    /\ media[last.m].artifact_source # NoObj
    /\ path_is_reference(media[last.m].path)
    /\ arts[last.art].added = <<>>
    /\ arts[last.art].entries =
          {[name |-> last.ret.path, kind |-> "reference",
            ref |-> ref_url(media[last.m].artifact_source, last.ret.path)]}

\* C16: to_json(artifact), whatever it returns or raises, leaves every
\* instance as it was (_path, _is_tmp, _extension, _sha256, _size, _run and
\* which of them exist), leaves the files and leaves every other artifact;
\* and when it follows a to_json of the same instance into another
\* artifact, neither call finding the path in its artifact, it hands its
\* artifact the name the earlier call handed to the other one, and returns
\* the same name unless the artifact names the added file itself.
C16_SerializeForArtifactConsumesNothing ==
    [][last'.op = "to_json_artifact"
        => /\ media' = media
           /\ fs' = fs
           /\ \A b \in Artifacts \ {last'.art} : arts'[b] = arts[b]
           /\ (/\ last.op = "to_json_artifact"
               /\ last.m = last'.m
               /\ last.art # last'.art
               /\ last.err = "ok" /\ last.mut # "none"
               /\ media[last'.m].path \notin DOMAIN arts[last'.art].added)
                => /\ last'.err = "ok"
                   /\ last'.mut = last.mut
                   /\ last'.derived = last.derived
                   /\ last'.mut # "add_file" => last'.ret.path = last.ret.path
                   /\ last'.ret.sha256 = last.ret.sha256]_vars

\* One staged file was serialised into both artifacts, one after the other,
\* and is still temporary.
C16_Witness ==
    /\ last.op = "to_json_artifact"
    /\ last.err = "ok"
    /\ last.mut = "add_file"
    /\ media[last.m].is_tmp
    /\ \A a \in Artifacts : media[last.m].path \in DOMAIN arts[a].added

\* C17: in every state, an instance whose _run is set is not temporary and
\* its _path is an existing file inside the directory of that run, so that
\* the path to_json(run) returns for it does not start with "..".
C17_BoundMeansRelocated ==
    \A m \in MediaIds :
        media[m].run # NoObj
            => /\ hasattr(media[m], "_is_tmp") /\ ~media[m].is_tmp
               /\ media[m].path \in DOMAIN fs
               /\ startswith(media[m].path, RunDir(media[m].run) \o <<sep>>)
               /\ ~startswith(relpath(media[m].path, RunDir(media[m].run)), <<"..">>)

\* The path lies inside the directory of some run.
InARunDir(p) == \E r \in Runs : startswith(p, RunDir(r) \o <<sep>>)

C19_EqualityIsSymmetric ==
    last.op = "__eq__"
        => (last.eq <=> PyEq(media[last.other], media[last.m]))

\* An instance was compared with one of a kind that derives from its own,
\* both with the digest of the same content: they are not equal, in either
\* order.
C19_Witness ==
    /\ last.op = "__eq__"
    /\ media[last.m].kind = "Image"
    /\ media[last.other].kind = "ImageMask"
    /\ hasattr(media[last.m], "_sha256")
    /\ hasattr(media[last.other], "_sha256")
    /\ media[last.m].sha256 = media[last.other].sha256
    /\ ~last.eq
    /\ ~PyEq(media[last.other], media[last.m])

====
